---- MODULE Spec2Model ----
(***************************************************************************)
(* A model of the ytdl command line downloader (latest revision of the     *)
(* program, src/unnamed/part_000): the commander action of main, the      *)
(* p-limit scheduling of the playlist downloads, the single video         *)
(* fallback, downloadVideo's stream handlers and mkDirByPathSync.          *)
(*                                                                         *)
(* One action is one turn of the node event loop: a handler together with *)
(* every promise continuation (microtask) it triggers.                     *)
(***************************************************************************)
EXTENDS Integers, Sequences, FiniteSets, TLC

(* ------------------------------ bounds -------------------------------- *)
MaxItems == 5
MaxOffset == 1
MaxLimit == 2
MaxSegs == 2

(* ------------------------- program constants -------------------------- *)
DefaultConcurrency == 5
NotFoundCode == 404
BadRequestCode == 400

(* ------------------------- javascript numbers ------------------------- *)
\* A Number is an integer, NaN or +Infinity.
Num(n) == [k |-> "int", v |-> n]
NaN == [k |-> "nan", v |-> 0]
Infinity == [k |-> "inf", v |-> 0]

IsInt(x) == x.k = "int"

\* a - b, for b an integer or NaN
NumSub(a, b) ==
    IF a.k = "nan" \/ b.k = "nan" THEN NaN
    ELSE IF a.k = "inf" THEN Infinity
    ELSE Num(a.v - b.v)

\* a + b, for operands that are not -Infinity
NumAdd(a, b) ==
    IF a.k = "nan" \/ b.k = "nan" THEN NaN
    ELSE IF a.k = "inf" \/ b.k = "inf" THEN Infinity
    ELSE Num(a.v + b.v)

\* Math.min(a, b)
MathMin(a, b) ==
    IF a.k = "nan" \/ b.k = "nan" THEN NaN
    ELSE IF a.k = "inf" THEN b
    ELSE IF b.k = "inf" THEN a
    ELSE IF a.v <= b.v THEN a ELSE b

(* ------------------------------ parseInt ------------------------------ *)
Digits == <<"0", "1", "2", "3", "4", "5", "6", "7", "8", "9">>
IsDigit(c) == \E i \in 1..Len(Digits) : Digits[i] = c
DigitVal(c) == (CHOOSE i \in 1..Len(Digits) : Digits[i] = c) - 1

\* the value of the longest run of digits at the start of s; -1 when there is none
RECURSIVE LeadingDigits(_, _)
LeadingDigits(s, acc) ==
    IF s = <<>> \/ ~IsDigit(Head(s)) THEN acc
    ELSE LeadingDigits(Tail(s), (IF acc < 0 THEN 0 ELSE acc * 10) + DigitVal(Head(s)))

\* myParseInt(value) = parseInt(value): optional sign, leading digits, rest ignored
myParseInt(value) ==
    LET neg == value # <<>> /\ Head(value) = "-"
        body == IF neg THEN Tail(value) ELSE value
        d == LeadingDigits(body, -1)
    IN  IF d < 0 THEN NaN ELSE Num(IF neg THEN 0 - d ELSE d)

\* an option that is absent keeps its default, one that is given goes through myParseInt
Absent == <<"absent">>
Option(arg, default) == IF arg = Absent THEN default ELSE myParseInt(arg)

DigitTok(n) == <<Digits[n + 1]>>

ConcurrencyArgs ==
    {Absent, DigitTok(0), DigitTok(1), DigitTok(2), <<"-", "1">>, <<"x">>, <<"2", "x">>}
OffsetArgs == {Absent} \cup {DigitTok(n) : n \in 0..MaxOffset}
LimitArgs == {Absent} \cup {DigitTok(n) : n \in 0..MaxLimit}
Links == {"", "L"}

(* ------------------------------- state -------------------------------- *)
VARIABLES
    pc,            \* where the commander action stands
    link,          \* cmObj.link
    concurrency,   \* cmObj.concurrency
    offset,        \* cmObj.offset
    limit,         \* cmObj.limit
    playlist,      \* what ytpl answered
    mkdirLog,      \* the mkdirSync calls made so far and their outcomes
    limiter,       \* the p-limit instance: created, activeCount, queue
    job,           \* the state of each download's promise
    jobArgs,       \* the arguments downloadVideo was called with
    submitted,     \* the items given to plimit(), in order
    started,       \* the downloads started (downloadVideo called), in order
    spinnies,      \* the status of each line of the progress reporter
    report,        \* what the action printed at its end
    resultLen,     \* result.length as printed
    infoLookups,   \* the calls of ytdl.getBasicInfo
    exitStatus,    \* the exit status of the process, "none" while it runs
    crashed,       \* the process ended on an uncaught exception
    writeError,    \* the downloads whose file stream has emitted 'error'
    fileTitle,     \* the title each downloadVideo call was given
    starttime,     \* downloadVideo's starttime of each download
    text           \* the last progress line built for each download

vars == <<pc, link, concurrency, offset, limit, playlist, mkdirLog, limiter, job,
          jobArgs, submitted, started, spinnies, report, resultLen, infoLookups,
          exitStatus, crashed, writeError, fileTitle, starttime, text>>

FB == 0                       \* the single video download of the fallback
JobIds == 0..MaxItems         \* item i of the playlist is download i

NoArgs == [title |-> "none", via |-> "none", dir |-> "none"]
NoPlaylist == [status |-> "pending", n |-> 0, est |-> 0]
NoTitle == <<>>
NoText == [downloaded |-> "none", total |-> "none", percent |-> "none", eta |-> "none"]

Init ==
    /\ pc = "init"
    /\ link \in Links
    /\ \E a \in ConcurrencyArgs : concurrency = Option(a, Num(DefaultConcurrency))
    /\ \E a \in OffsetArgs : offset = Option(a, Num(0))
    /\ \E a \in LimitArgs : limit = Option(a, Infinity)
    /\ playlist = NoPlaylist
    /\ mkdirLog = <<>>
    /\ limiter = [created |-> FALSE, activeCount |-> 0, queue |-> <<>>]
    /\ job = [j \in JobIds |-> "idle"]
    /\ jobArgs = [j \in JobIds |-> NoArgs]
    /\ submitted = <<>>
    /\ started = <<>>
    /\ spinnies = [j \in JobIds |-> "none"]
    /\ report = "none"
    /\ resultLen = -1
    /\ infoLookups = 0
    /\ exitStatus = "none"
    /\ crashed = FALSE
    /\ writeError = {}
    /\ fileTitle = [j \in JobIds |-> NoTitle]
    /\ starttime = [j \in JobIds |-> "undefined"]
    /\ text = [j \in JobIds |-> NoText]


(* --------------------------- mkDirByPathSync --------------------------- *)
\* What fs.mkdirSync answers for one segment of the path: its error code ("OK" when
\* the directory was made) and whether curDir === path.resolve(targetDir).
FsCodes == {"OK", "EEXIST", "ENOENT", "EACCES", "EPERM", "EISDIR", "ENOSPC"}
Segment == [code : FsCodes, isTarget : BOOLEAN]

\* the walks of a path of up to n segments; the last segment always resolves to the target
Paths(n) ==
    UNION {{p \in [1..len -> Segment] : p[len].isTarget} : len \in 1..n}

CaughtCodes == {"EACCES", "EPERM", "EISDIR"}

\* a slip in the callback: the EEXIST test left out
MkdirThrowsOnExisting(seg) ==
    IF seg.code = "OK" THEN FALSE
    ELSE IF seg.code = "ENOENT" THEN TRUE
    ELSE LET caughtErr == seg.code \in CaughtCodes
         IN  ~caughtErr \/ (caughtErr /\ seg.isTarget)

\* the body of the reduce callback for one segment: TRUE when it throws
MkdirThrows(seg) ==
    IF seg.code = "OK" THEN FALSE
    ELSE IF seg.code = "EEXIST" THEN FALSE
    ELSE IF seg.code = "ENOENT" THEN TRUE
    ELSE LET caughtErr == seg.code \in CaughtCodes
         IN  ~caughtErr \/ (caughtErr /\ seg.isTarget)

\* mkDirByPathSync(targetDir): the segments are tried in order up to the first throw
mkDirByPathSync(path) ==
    LET bad == {i \in 1..Len(path) : MkdirThrows(path[i])}
        stop == IF bad = {} THEN Len(path)
                ELSE CHOOSE i \in bad : \A h \in bad : i <= h
    IN  [threw |-> bad # {}, calls |-> SubSeq(path, 1, stop)]

(* ------------------------------- p-limit ------------------------------- *)
\* pLimit(concurrency) throws a TypeError unless concurrency is an integer (or
\* Infinity) from 1 and up
pLimitAccepts(c) == (c.k = "inf") \/ (c.k = "int" /\ c.v > 0)

\* a slot is free
HasSlot(lim, c) == c.k = "inf" \/ lim.activeCount < c.v

\* plimit(fn): run fn now when a slot is free, else queue it
Enqueue(lim, c, j) ==
    IF HasSlot(lim, c)
    THEN [lim EXCEPT !.activeCount = @ + 1]
    ELSE [lim EXCEPT !.queue = Append(@, j)]

RECURSIVE EnqueueAll(_, _, _)
EnqueueAll(lim, c, js) ==
    IF js = <<>> THEN lim
    ELSE EnqueueAll(Enqueue(lim, c, Head(js)), c, Tail(js))

\* next(): called when a task's promise settles, fulfilled or rejected alike
LimiterNext(lim) ==
    LET freed == [lim EXCEPT !.activeCount = @ - 1]
    IN  IF freed.queue # <<>>
        THEN [freed EXCEPT !.queue = Tail(@), !.activeCount = @ + 1]
        ELSE freed

\* the task next() takes from the queue, as a sequence of zero or one download
Dequeued(lim) == IF lim.queue # <<>> THEN <<Head(lim.queue)>> ELSE <<>>

(* ------------------------------- slicing ------------------------------- *)
Max(a, b) == IF a >= b THEN a ELSE b
Min(a, b) == IF a <= b THEN a ELSE b

\* Array.prototype.slice's reading of an index against an array of length n
RelIndex(x, n) ==
    IF x.k = "nan" THEN 0
    ELSE IF x.k = "inf" THEN n
    ELSE IF x.v < 0 THEN Max(n + x.v, 0)
    ELSE Min(x.v, n)

\* items.slice(from, to)
Slice(items, from, to) ==
    SubSeq(items, RelIndex(from, Len(items)) + 1, RelIndex(to, Len(items)))

\* playlist.items: item i is the i-th of the playlist
Items(n) == [i \in 1..n |-> i]

\* line 62
ActualLimit(est) == MathMin(limit, NumSub(Num(est), offset))

\* a slip in the slice: the end given as actualLimit, not offset + actualLimit
ScheduledEndNotShifted(n, est) == Slice(Items(n), offset, ActualLimit(est))

\* lines 68-69: the items handed to the limiter
Scheduled(n, est) == Slice(Items(n), offset, NumAdd(offset, ActualLimit(est)))

\* a slip in the map: downloadVideo called for every item without plimit()
SubmitUnlimited(c, js) == [created |-> TRUE, activeCount |-> Len(js), queue |-> <<>>]

\* lines 61, 70-79: a new limiter, and every item of the slice given to it in order
Submit(c, js) == EnqueueAll([created |-> TRUE, activeCount |-> 0, queue |-> <<>>], c, js)

Range(s) == {s[i] : i \in 1..Len(s)}

(* ------------------------------- titles ------------------------------- *)
\* the characters sanitize-filename takes out of a name
IllegalChars == {"/", "?", "<", ">", ":", "*", "|"}

\* sanitize(title), lines 12, 58, 73: the illegal characters are removed
sanitize(title) == SelectSeq(title, LAMBDA c : c \notin IllegalChars)

\* item.title: item i is titled with its number, every second title holds a slash
ItemTitle(i) == IF i % 2 = 0 THEN <<Digits[i + 1], "/">> ELSE <<Digits[i + 1]>>

\* info.videoDetails.title: the titles a single video may have
VideoTitles == {<<"v">>, <<"v", "/", "w">>}

\* the title downloadVideo is given for each download of js, lines 72-73
TitleAll(f, js) == [j \in JobIds |-> IF j \in Range(js) THEN sanitize(ItemTitle(j)) ELSE f[j]]

(* ------------------------------ the process ---------------------------- *)
\* a slip in getPLaylist: the test of the link left out
getPLaylistChecksNothing(l) == FALSE

\* getPLaylist, lines 112-114: an empty link is rejected before ytpl is called
getPLaylistRejectsLink(l) == l = ""

\* a slip in the catch block: the code compared with 400
IsNotFoundWrongCode(code) == code = BadRequestCode

\* line 84, error.code == 404: TRUE when the catch block goes to the single video
IsNotFound(code) == code = NotFoundCode

\* The event loop has nothing left once the action has returned and no stream is
\* open: node then ends the process with status 0.
Drained(pc2, job2) == pc2 = "returned" /\ \A j \in JobIds : job2[j] # "running"
StatusAfter(pc2, job2) == IF Drained(pc2, job2) THEN "0" ELSE "none"

\* downloadVideo({title, url, outputDir, spinnies}) called for each download of js
StartAll(f, js, running) == [j \in JobIds |-> IF j \in Range(js) THEN running ELSE f[j]]

PlaylistArgs == [title |-> "sanitize(item.title)", via |-> "plimit", dir |-> "outputDir"]
FallbackArgs == [title |-> "info.videoDetails.title", via |-> "direct", dir |-> "output"]

\* lines 99-101: the else branch of the catch block
ReportError(job2) ==
    /\ report' = "error"
    /\ pc' = "returned"
    /\ exitStatus' = StatusAfter("returned", job2)

\* lines 84-87: the catch block on a 404 calls ytdl.getBasicInfo and awaits it
EnterFallback ==
    /\ pc' = "getBasicInfo"
    /\ infoLookups' = infoLookups + 1
    /\ UNCHANGED <<report, exitStatus>>

\* The errors thrown inside the try block other than getPLaylist's rejections: an
\* Error without a code (new Error of line 184, p-limit's TypeError, an Error of the
\* resolver) or a system error, whose code is a string.
PlainError == [t |-> "undefined", n |-> 0, s |-> ""]
SysError(c) == [t |-> "string", n |-> 0, s |-> c]
StreamErrors == {PlainError, SysError("ECONNRESET")}

\* what mkDirByPathSync throws on segment seg, lines 182-190
MkdirError(seg) == IF seg.code = "ENOENT" THEN PlainError ELSE SysError(seg.code)

\* a slip in the catch block: the test of error.code left out
CatchAlwaysTakesFallback(err) == TRUE

\* line 84, error.code == 404 with its loose equality, for an error object
CatchTakesFallback(err) ==
    \/ err.t = "number" /\ IsNotFound(err.n)
    \/ err.t = "string" /\ err.s = "404"

\* lines 83-102: the catch block of the action, for an error thrown after the
\* playlist was resolved
CatchLate(err, job2) ==
    IF CatchTakesFallback(err)
    THEN EnterFallback
    ELSE ReportError(job2) /\ UNCHANGED infoLookups

\* lines 83-102: the catch block of the action, for an error thrown before any download
CatchEarly(code) ==
    IF IsNotFound(code)
    THEN EnterFallback
    ELSE ReportError(job) /\ UNCHANGED infoLookups

\* The action is called: lines 48-51 up to the first await.
Start ==
    /\ pc = "init"
    /\ IF getPLaylistRejectsLink(link)
       THEN CatchEarly(BadRequestCode)
       ELSE /\ pc' = "ytpl"
            /\ UNCHANGED <<report, exitStatus, infoLookups>>
    /\ UNCHANGED <<link, concurrency, offset, limit, playlist, mkdirLog, limiter, job,
                   jobArgs, submitted, started, spinnies, resultLen, crashed,
                   writeError, fileTitle, starttime, text>>

\* ytpl fails, lines 118-124: whatever the reason, the rejection carries code 404
YtplRejects(reason) ==
    /\ pc = "ytpl"
    /\ playlist' = [playlist EXCEPT !.status = reason]
    /\ CatchEarly(NotFoundCode)
    /\ UNCHANGED <<link, concurrency, offset, limit, mkdirLog, limiter, job, jobArgs,
                   submitted, started, spinnies, resultLen, crashed, writeError,
                   fileTitle, starttime, text>>

\* ytpl answers a playlist of n items that it estimates at est: lines 52-80 up to
\* the await of Promise.all, and lines 81-82 when there is nothing to await
YtplResolves(n, est, path) ==
    LET dir == mkDirByPathSync(path)
        js == Scheduled(n, est)
        lim == Submit(concurrency, js)
        now == SelectSeq(js, LAMBDA j : j \notin Range(lim.queue))
    IN
    /\ pc = "ytpl"
    /\ playlist' = [status |-> "ok", n |-> n, est |-> est]
    /\ mkdirLog' = dir.calls
    /\ UNCHANGED <<link, concurrency, offset, limit, crashed, writeError, starttime, text>>
    /\ IF dir.threw \/ ~pLimitAccepts(concurrency)
       THEN /\ CatchLate(IF dir.threw THEN MkdirError(dir.calls[Len(dir.calls)])
                         ELSE PlainError, job)
            /\ UNCHANGED <<limiter, job, jobArgs, submitted, started, spinnies, resultLen,
                           fileTitle>>
       ELSE /\ limiter' = lim
            /\ submitted' = js
            /\ started' = now
            /\ job' = [j \in JobIds |->
                         IF j \in Range(now) THEN "running"
                         ELSE IF j \in Range(js) THEN "queued" ELSE job[j]]
            /\ jobArgs' = StartAll(jobArgs, now, PlaylistArgs)
            /\ fileTitle' = TitleAll(fileTitle, now)
            /\ spinnies' = StartAll(spinnies, now, "spinning")
            /\ UNCHANGED infoLookups
            /\ IF js = <<>>
               THEN /\ report' = "finished"
                    /\ resultLen' = 0
                    /\ pc' = "returned"
                    /\ exitStatus' = "0"
               ELSE /\ pc' = "awaitAll"
                    /\ UNCHANGED <<report, resultLen, exitStatus>>

\* what the settling of download j does beyond its own promise: p-limit's next()
\* starts the oldest queued download, lines 71-78
AfterSettle(j, outcome, mark) ==
    LET nxt == IF j = FB THEN <<>> ELSE Dequeued(limiter)
        job1 == [job EXCEPT ![j] = outcome]
    IN  /\ limiter' = IF j = FB THEN limiter ELSE LimiterNext(limiter)
        /\ job' = StartAll(job1, nxt, "running")
        /\ started' = started \o nxt
        /\ jobArgs' = StartAll(jobArgs, nxt, PlaylistArgs)
        /\ fileTitle' = TitleAll(fileTitle, nxt)
        /\ spinnies' = StartAll([spinnies EXCEPT ![j] = mark], nxt, "spinning")

\* the stream of download j emits 'end', lines 154-158; for a playlist download
\* Promise.all may then resolve (lines 80-82), for the single video the action returns
StreamEnd(j) ==
    /\ exitStatus = "none"
    /\ job[j] = "running"
    /\ AfterSettle(j, "success", "succeed")
    /\ IF pc = "awaitAll" /\ \A i \in Range(submitted) : job'[i] = "success"
       THEN /\ report' = "finished"
            /\ resultLen' = Len(submitted)
            /\ pc' = "returned"
            /\ exitStatus' = "0"
       ELSE /\ pc' = IF j = FB THEN "returned" ELSE pc
            /\ exitStatus' = StatusAfter(pc', job')
            /\ UNCHANGED <<report, resultLen>>
    /\ UNCHANGED <<link, concurrency, offset, limit, playlist, mkdirLog, submitted,
                   infoLookups, crashed, writeError, starttime, text>>

\* a slip in the 'error' handler: the line is marked failed, reject(err) is left out
StreamErrorNoReject(j, err) ==
    /\ exitStatus = "none"
    /\ job[j] = "running"
    /\ job' = [job EXCEPT ![j] = "failure"]
    /\ spinnies' = [spinnies EXCEPT ![j] = "fail"]
    /\ UNCHANGED <<pc, link, concurrency, offset, limit, playlist, mkdirLog, limiter,
                   jobArgs, submitted, started, report, resultLen, infoLookups,
                   exitStatus, crashed, writeError, fileTitle, starttime, text>>

\* the stream of download j emits 'error', lines 159-162; for a playlist download
\* Promise.all rejects on the first one (lines 83, 99-101), for the single video
\* the inner catch ends the process (lines 95-98)
StreamError(j, err) ==
    /\ exitStatus = "none"
    /\ job[j] = "running"
    /\ AfterSettle(j, "failure", "fail")
    /\ IF j = FB
       THEN /\ report' = "fallbackError"
            /\ pc' = "returned"
            /\ exitStatus' = "1"
            /\ UNCHANGED infoLookups
       ELSE IF pc = "awaitAll"
       THEN CatchLate(err, job')
       ELSE /\ exitStatus' = StatusAfter(pc, job')
            /\ UNCHANGED <<pc, report, infoLookups>>
    /\ UNCHANGED <<link, concurrency, offset, limit, playlist, mkdirLog, submitted,
                   resultLen, crashed, writeError, starttime, text>>

\* the file stream of download j emits 'error', line 133: it has no listener, so
\* the error is thrown out of the event loop and ends the process
WriteError(j) ==
    /\ exitStatus = "none"
    /\ job[j] = "running"
    /\ writeError' = writeError \cup {j}
    /\ crashed' = TRUE
    /\ exitStatus' = "1"
    /\ UNCHANGED <<pc, link, concurrency, offset, limit, playlist, mkdirLog, limiter,
                   job, jobArgs, submitted, started, spinnies, report, resultLen,
                   infoLookups, fileTitle, starttime, text>>

\* The numbers of the progress handler, as far as their printing goes: zero, a
\* positive number, some finite number, NaN or Infinity.
\* a / b, for a and b zero, positive, NaN or Infinity
Div(a, b) ==
    IF a = "NaN" \/ b = "NaN" THEN "NaN"
    ELSE IF b = "zero" THEN (IF a = "zero" THEN "NaN" ELSE "Infinity")
    ELSE IF b = "Infinity" THEN (IF a = "Infinity" THEN "NaN" ELSE "zero")
    ELSE a

\* a - b, for b zero or positive
Sub(a, b) ==
    IF a = "NaN" \/ b = "NaN" THEN "NaN"
    ELSE IF a = "Infinity" THEN "Infinity"
    ELSE "finite"

\* x.toFixed(2)
ToFixed(x) == IF x \in {"NaN", "Infinity"} THEN x ELSE "number"

\* lines 138-152: the line the progress handler builds
ProgressText(downloaded, total, elapsed) ==
    LET percent == Div(downloaded, total)
        downloadedMinutes == elapsed
        estimatedDownloadTime == Sub(Div(downloadedMinutes, percent), downloadedMinutes)
    IN  [downloaded |-> downloaded, total |-> total,
         percent |-> ToFixed(percent), eta |-> ToFixed(estimatedDownloadTime)]

\* the stream of download j emits 'response', lines 134-136 (once)
Response(j) ==
    /\ exitStatus = "none"
    /\ job[j] = "running"
    /\ starttime[j] = "undefined"
    /\ starttime' = [starttime EXCEPT ![j] = "set"]
    /\ UNCHANGED <<pc, link, concurrency, offset, limit, playlist, mkdirLog, limiter,
                   job, jobArgs, submitted, started, spinnies, report, resultLen,
                   infoLookups, exitStatus, crashed, writeError, fileTitle, text>>

\* the stream of download j emits 'progress' (after its response), lines 137-153:
\* total is the content length, NaN when the response states none
Progress(j, downloaded, total, elapsed) ==
    /\ exitStatus = "none"
    /\ job[j] = "running"
    /\ starttime[j] = "set"
    /\ text' = [text EXCEPT ![j] = ProgressText(downloaded, total, elapsed)]
    /\ UNCHANGED <<pc, link, concurrency, offset, limit, playlist, mkdirLog, limiter,
                   job, jobArgs, submitted, started, spinnies, report, resultLen,
                   infoLookups, exitStatus, crashed, writeError, fileTitle, starttime>>

\* ytdl.getBasicInfo resolves, lines 87-94 up to the await of downloadVideo
BasicInfoResolves(path, title) ==
    LET dir == mkDirByPathSync(path)
    IN
    /\ pc = "getBasicInfo"
    /\ exitStatus = "none"
    /\ mkdirLog' = dir.calls
    /\ IF dir.threw
       THEN /\ report' = "fallbackError"
            /\ pc' = "returned"
            /\ exitStatus' = "1"
            /\ UNCHANGED <<job, jobArgs, started, spinnies, fileTitle>>
       ELSE /\ pc' = "fbDownload"
            /\ job' = [job EXCEPT ![FB] = "running"]
            /\ jobArgs' = [jobArgs EXCEPT ![FB] = FallbackArgs]
            /\ fileTitle' = [fileTitle EXCEPT ![FB] = title]
            /\ started' = Append(started, FB)
            /\ spinnies' = [spinnies EXCEPT ![FB] = "spinning"]
            /\ UNCHANGED <<report, exitStatus>>
    /\ UNCHANGED <<link, concurrency, offset, limit, playlist, limiter, submitted,
                   resultLen, infoLookups, crashed, writeError, starttime, text>>

\* a slip in the inner catch: process.exit(1) left out, as in the outer catch
BasicInfoRejectsNoExit ==
    /\ pc = "getBasicInfo"
    /\ exitStatus = "none"
    /\ report' = "fallbackError"
    /\ pc' = "returned"
    /\ exitStatus' = StatusAfter("returned", job)
    /\ UNCHANGED <<link, concurrency, offset, limit, playlist, mkdirLog, limiter, job,
                   jobArgs, submitted, started, spinnies, resultLen, infoLookups,
                   crashed, writeError, fileTitle, starttime, text>>

\* ytdl.getBasicInfo rejects, lines 95-98
BasicInfoRejects ==
    /\ pc = "getBasicInfo"
    /\ exitStatus = "none"
    /\ report' = "fallbackError"
    /\ pc' = "returned"
    /\ exitStatus' = "1"
    /\ UNCHANGED <<link, concurrency, offset, limit, playlist, mkdirLog, limiter, job,
                   jobArgs, submitted, started, spinnies, resultLen, infoLookups,
                   crashed, writeError, fileTitle, starttime, text>>

(* --------------------------- specifications ---------------------------- *)
YtplErrors == {"notfound", "malformed", "network"}
\* ytpl's estimate is the length of the item list or off by one
Estimates(n) == {e \in {n - 1, n, n + 1} : e >= 0}
\* the short walks: a one segment path
ShortPaths == Paths(1)

Events ==
    \/ \E r \in YtplErrors : YtplRejects(r)
    \/ \E j \in JobIds : StreamEnd(j)
    \/ \E j \in JobIds, err \in StreamErrors : StreamError(j, err)
    \/ \E j \in JobIds : WriteError(j)
    \/ BasicInfoRejects

Next ==
    \/ Start
    \/ Events
    \/ \E n \in 0..MaxItems, p \in ShortPaths : \E e \in Estimates(n) : YtplResolves(n, e, p)
    \/ \E p \in ShortPaths, t \in VideoTitles : BasicInfoResolves(p, t)

Spec == Init /\ [][Next]_vars

\* the same program with every walk of the output directory, on short playlists
\* and with --offset and --limit left out
MaxDirItems == 1
InitDir == Init /\ offset = Num(0) /\ limit = Infinity
NextDir ==
    \/ Start
    \/ Events
    \/ \E n \in 0..MaxDirItems, p \in Paths(MaxSegs) : YtplResolves(n, n, p)
    \/ \E p \in Paths(MaxSegs), t \in VideoTitles : BasicInfoResolves(p, t)

SpecDir == InitDir /\ [][NextDir]_vars

\* the same program with the 'response' and 'progress' events of the streams, on
\* short playlists and with --offset and --limit left out
MaxProgressItems == 1
Downloaded == {"zero", "positive"}
Totals == {"NaN", "zero", "positive"}
Elapsed == {"zero", "positive"}
NextProgress ==
    \/ Start
    \/ Events
    \/ \E n \in 0..MaxProgressItems, p \in ShortPaths : YtplResolves(n, n, p)
    \/ \E p \in ShortPaths, t \in VideoTitles : BasicInfoResolves(p, t)
    \/ \E j \in JobIds : Response(j)
    \/ \E j \in JobIds, d \in Downloaded, t \in Totals, e \in Elapsed : Progress(j, d, t, e)

SpecProgress == InitDir /\ [][NextProgress]_vars

TypeOK ==
    /\ pc \in {"init", "ytpl", "awaitAll", "getBasicInfo", "fbDownload", "returned"}
    /\ exitStatus \in {"none", "0", "1"}
    /\ \A j \in JobIds : job[j] \in {"idle", "queued", "running", "success", "failure"}
    /\ limiter.activeCount >= 0

(* ------------------------------ the claims ----------------------------- *)
PlaylistJobs == JobIds \ {FB}
Running == {j \in PlaylistJobs : job[j] = "running"}
Queued == {j \in PlaylistJobs : job[j] = "queued"}
Settled == {j \in PlaylistJobs : job[j] \in {"success", "failure"}}
Failed == {j \in PlaylistJobs : job[j] = "failure"}

\* C1: with a concurrency k >= 1, in every reachable state at most k playlist
\* downloads are executing (stream opened, neither ended nor failed), whatever the
\* order of the stream events and whether downloads end in success or in failure.
C1_AtMostKExecuting ==
    (IsInt(concurrency) /\ concurrency.v >= 1) => Cardinality(Running) <= concurrency.v

\* C1 witness: the limit binds after a failure: k = 2, two downloads executing, one
\* failed and others still queued
C1_Witness ==
    /\ concurrency = Num(2)
    /\ Cardinality(Running) = 2
    /\ Failed # {}
    /\ Queued # {}

\* C2 as stated: once the playlist is scheduled, the number of downloads given to the
\* limiter is max(0, min(limit, itemCount - offset)), itemCount the length of the item
\* list, also when the estimated count differs from it.
C2_SubmittedCount ==
    limiter.created =>
        Len(submitted) =
            Max(0, IF IsInt(limit) THEN Min(limit.v, playlist.n - offset.v)
                   ELSE playlist.n - offset.v)

\* C3 as stated: when N downloads were scheduled, exactly one failed and the others
\* ended, the action ends with a result of N entries (the completion summary).
C3_FailureIsolation ==
    (/\ submitted # <<>>
     /\ Cardinality(Failed) = 1
     /\ Settled = Range(submitted))
        => (report = "finished" /\ resultLen = Len(submitted))

\* C4 as stated, in the form a finite run refutes: when the process has ended, every
\* download given to the limiter has reached a terminal state, success or failure.
C4_NoJobAbandoned ==
    exitStatus # "none" => Range(submitted) \subseteq Settled

\* C5: when the playlist resolver has reported not-found, exactly one single video
\* download is attempted: one basic-info lookup is made, the download it leads to gets
\* its title and url from that lookup and is run directly, not through the limiter,
\* and no playlist download is scheduled or started.
C5_FallbackIsSingleAndDirect ==
    playlist.status \in YtplErrors =>
        /\ infoLookups = 1
        /\ ~limiter.created
        /\ submitted = <<>>
        /\ \A j \in PlaylistJobs : job[j] = "idle"
        /\ started \in {<<>>, <<FB>>}
        /\ (pc = "fbDownload" => started = <<FB>>)
        /\ (started = <<FB>> => jobArgs[FB] = FallbackArgs)

\* C5 witness: not-found was reported and the single video was downloaded
C5_Witness ==
    /\ playlist.status = "notfound"
    /\ job[FB] = "success"
    /\ exitStatus = "0"

\* C6 as stated: a resolution error other than not-found (an empty reference, a
\* malformed reference, any other failure of the resolver) is reported and no single
\* video lookup or download is attempted.
C6_OtherErrorsNoFallback ==
    ((link = "" /\ pc # "init") \/ playlist.status \in {"malformed", "network"})
        => (infoLookups = 0 /\ job[FB] = "idle" /\ report = "error")

\* C6 as amended: only the empty reference is an error other than not-found: it is
\* reported with nothing looked up or started; every failure of the resolver itself, a
\* malformed reference included, is taken for not-found and does start the single
\* video lookup; and whatever the action reports as an error had no fallback.
C6_OnlyEmptyLinkIsFatal ==
    /\ (link = "" /\ pc # "init") =>
           (report = "error" /\ infoLookups = 0 /\ started = <<>> /\ pc = "returned")
    /\ playlist.status \in YtplErrors => infoLookups = 1
    /\ report = "error" => (infoLookups = 0 /\ job[FB] = "idle")

\* C6 witness: the empty reference was reported and the process is over
C6_Witness ==
    /\ link = ""
    /\ report = "error"
    /\ exitStatus # "none"

\* C7 as stated: a fatal error before any download is scheduled ends the process with
\* status 1 and nothing scheduled, and status 0 comes only from a full batch completion.
C7_FatalExitsWithOne ==
    /\ (report = "error" /\ submitted = <<>> /\ exitStatus # "none") => exitStatus = "1"
    /\ (report = "error" /\ submitted = <<>>) => started = <<>>
    /\ exitStatus = "0" => report = "finished"

\* C8: the downloads are given to the limiter in the order of the playlist, as the
\* contiguous run of items that starts at offset, and they start executing in that same
\* order (a download never starts before one submitted ahead of it); for a playlist of
\* five items with offset 1 and limit 2 the submitted sequence is items two and three.
C8_SubmissionOrder ==
    limiter.created =>
        /\ \A i \in 1..Len(submitted) : submitted[i] = offset.v + i
        /\ Len(started) <= Len(submitted)
        /\ \A i \in 1..Len(started) : started[i] = submitted[i]
        /\ \A i \in 1..Len(submitted) : (job[submitted[i]] = "queued") = (i > Len(started))
        /\ (playlist.n = 5 /\ playlist.est = 5 /\ offset = Num(1) /\ limit = Num(2))
               => submitted = <<2, 3>>

\* C8 witness: the scenario, run with one slot: items two and three submitted and started
C8_Witness ==
    /\ playlist.n = 5
    /\ offset = Num(1)
    /\ limit = Num(2)
    /\ concurrency = Num(1)
    /\ submitted = <<2, 3>>
    /\ started = <<2, 3>>

\* C9: the limiter is work-conserving and frees the slot on success and on failure
\* alike: a download waits in the queue only while exactly k are executing, and the
\* number of downloads started is always min(submitted, settled + k), which for k = 2
\* and five downloads of equal duration gives the waves 2, 2 and 1.
C9_WorkConserving ==
    (limiter.created /\ IsInt(concurrency)) =>
        /\ Queued # {} => Cardinality(Running) = concurrency.v
        /\ Len(started) = Min(Len(submitted), Cardinality(Settled) + concurrency.v)
        /\ Cardinality(Running) = limiter.activeCount

\* C9 witness: k = 2 and five downloads, the first wave over with a failure in it, the
\* second wave executing and the fifth download waiting
C9_Witness ==
    /\ concurrency = Num(2)
    /\ Len(submitted) = 5
    /\ Cardinality(Settled) = 2
    /\ Failed # {}
    /\ Cardinality(Running) = 2
    /\ Cardinality(Queued) = 1

\* the segments on which mkDirByPathSync gives up
FatalSegments ==
    {i \in 1..Len(mkdirLog) :
        /\ mkdirLog[i].code \notin {"OK", "EEXIST"}
        /\ ~(mkdirLog[i].code \in CaughtCodes /\ ~mkdirLog[i].isTarget)}
Aborted == ~limiter.created /\ submitted = <<>> /\ started = <<>> /\ report = "error"

\* C10 as stated: in playlist mode every filesystem error other than already-exists,
\* on any segment of the output path, aborts the batch with no download scheduled.
C10_AnyErrorAborts ==
    (playlist.status = "ok" /\ \E i \in 1..Len(mkdirLog) : mkdirLog[i].code \notin {"OK", "EEXIST"})
        => Aborted

\* C10 as amended: the path is walked segment by segment before anything is scheduled;
\* already-exists is no error; permission denied, not permitted and is-a-directory are
\* ignored on a segment that is not the target directory itself; any other error, and
\* these three on the target, stop the walk there and abort the batch with no download
\* scheduled; a walk without such an error never aborts the batch.
C10_ErrorsAbortExceptCaughtOnTheWay ==
    playlist.status = "ok" =>
        /\ mkdirLog # <<>>
        /\ FatalSegments \subseteq {Len(mkdirLog)}
        /\ FatalSegments # {} => Aborted
        /\ (FatalSegments = {} /\ pLimitAccepts(concurrency)) => limiter.created

\* C10 witness: permission denied on a segment on the way, the target already there,
\* and a download started
C10_Witness ==
    /\ playlist.status = "ok"
    /\ Len(mkdirLog) = 2
    /\ mkdirLog[1] = [code |-> "EACCES", isTarget |-> FALSE]
    /\ mkdirLog[2].code = "EEXIST"
    /\ started # <<>>

\* C11 as stated: a filesystem error while a download writes its file is a failure of
\* that download only: the download settles as failed, its reporter line is marked
\* failed, and the error is never left unhandled so as to end the process.
C11_WriteErrorFailsOnlyItsJob ==
    /\ \A j \in writeError : job[j] = "failure" /\ spinnies[j] = "fail"
    /\ ~crashed

\* C12 as stated: a progress line built on a tick whose total is 0 or unknown reports
\* percentage and estimated time as unavailable, and no progress line ever shows the
\* result of a division by a zero or undefined total or by a zero percentage.
C12_NoFiguresWithoutTotal ==
    \A j \in JobIds :
        text[j] # NoText =>
            /\ text[j].total \in {"NaN", "zero"} =>
                   (text[j].percent = "unavailable" /\ text[j].eta = "unavailable")
            /\ text[j].percent \notin {"NaN", "Infinity"}
            /\ text[j].eta \notin {"NaN", "Infinity"}

\* C13 as stated: in playlist mode the action makes its final report, the summary or
\* an error, only when every download it scheduled has settled.
C13_ReportAfterAllSettled ==
    (playlist.status = "ok" /\ report # "none") => Range(submitted) \subseteq Settled

\* C14 as stated: every download started, of the playlist or of the fallback, was
\* given a sanitized title, one that sanitize leaves as it is.
C14_TitlesSanitized ==
    \A j \in Range(started) : sanitize(fileTitle[j]) = fileTitle[j]

Spinning == {j \in PlaylistJobs : spinnies[j] = "spinning"}

\* C15: a download waiting in the limiter's queue has had no side effect: downloadVideo
\* was not called for it, so it has no stream, no title, no file and no reporter line;
\* hence the reporter lines in running state never exceed the concurrency limit.
C15_QueuedHasNoSideEffect ==
    (limiter.created /\ IsInt(concurrency)) =>
        /\ \A j \in Queued :
               /\ spinnies[j] = "none"
               /\ jobArgs[j] = NoArgs
               /\ fileTitle[j] = NoTitle
               /\ starttime[j] = "undefined"
               /\ text[j] = NoText
               /\ j \notin Range(started)
               /\ j \notin writeError
        /\ Spinning = Running
        /\ Cardinality(Spinning) <= concurrency.v

\* C15 witness: k = 2, two lines spinning, one line already settled, downloads waiting
C15_Witness ==
    /\ concurrency = Num(2)
    /\ Cardinality(Spinning) = 2
    /\ \E j \in PlaylistJobs : spinnies[j] = "succeed"
    /\ Queued # {}

\* C16: playlist mode and single video mode exclude each other: once the playlist is
\* resolved, no single video lookup is made and no fallback download is started,
\* whatever the directory setup, the limiter or a playlist download then throws.
C16_ModesExclusive ==
    playlist.status = "ok" =>
        /\ infoLookups = 0
        /\ job[FB] = "idle"
        /\ FB \notin Range(started)
        /\ pc \notin {"getBasicInfo", "fbDownload"}

\* C16 witness: downloads were scheduled, one of them failed and the error was reported
C16_Witness ==
    /\ playlist.status = "ok"
    /\ Len(submitted) >= 2
    /\ Failed # {}
    /\ report = "error"
    /\ exitStatus = "0"

\* C17: in single video mode the failure of any step, the lookup, the creation of the
\* output directory or the download itself, ends the process with status 1, only a
\* download that succeeded ends it with status 0, and the download is started only
\* after the lookup has answered and the directory walk has gone through.
C17_FallbackFailuresExitOne ==
    infoLookups = 1 =>
        /\ report = "fallbackError" => exitStatus = "1"
        /\ job[FB] = "failure" => (exitStatus = "1" /\ report = "fallbackError")
        /\ FB \in writeError => exitStatus = "1"
        /\ exitStatus = "0" => job[FB] = "success"
        /\ (pc = "returned" /\ job[FB] # "success") => exitStatus = "1"
        /\ job[FB] # "idle" =>
               /\ fileTitle[FB] \in VideoTitles
               /\ mkdirLog # <<>>
               /\ FatalSegments = {}
               /\ started = <<FB>>

\* C17 witness: the lookup answered, the walk of two segments went through, and the
\* download failed
C17_Witness ==
    /\ infoLookups = 1
    /\ Len(mkdirLog) = 2
    /\ job[FB] = "failure"
    /\ exitStatus = "1"
====
